---- MODULE Spec2Model ----
(***************************************************************************)
(* Model of crawler-new.js: one sync run launches a browser, logs in,      *)
(* scrolls the listing until the item count is stable, extracts the raw    *)
(* records, sanitizes the titles and rewrites the sheet.                   *)
(*                                                                         *)
(* A JavaScript string is a sequence of one-character strings.             *)
(***************************************************************************)
EXTENDS Integers, Sequences, FiniteSets, TLC

VARIABLES
    pc,                 \* position of crawlAndUpdate
    run,                \* number of the current run (1-based)
    site,               \* list items the site serves, in page order
    domCount,           \* list items rendered in the page so far
    browserOpen,        \* a browser process is alive
    prevContentLength,  \* crawlAndUpdate local
    noChangeCount,      \* crawlAndUpdate local
    divs,               \* item handles returned by page.$$
    movieData,          \* crawlAndUpdate local
    processedMovies,    \* crawlAndUpdate local
    current,            \* updateSheet local: rows returned by values.get
    orderedMovies,      \* updateSheet local
    sheet,              \* rows of Sheet1, header row first
    sheetAtStart,       \* history: rows of Sheet1 when the run started
    updates,            \* history: values.update calls completed in this run
    raised,             \* history: the step of this run that raised, or "none"
    stableCycles,       \* history: cycles of the running scroll loop begun
                        \*   since domCount last changed
    exitCode,           \* process outcome of the run once it has ended
    log,                \* history: the stages and storage calls this run
                        \*   has started, in order
    goodRuns,           \* history: the latest runs in a row that wrote the
                        \*   sheet from the whole listing
    external            \* history: an external writer has added a row since
                        \*   this run read the sheet

vars == <<pc, run, site, domCount, browserOpen, prevContentLength,
          noChangeCount, divs, movieData, processedMovies, current,
          orderedMovies, sheet, sheetAtStart, updates, raised,
          stableCycles, exitCode, log, goodRuns, external>>

---------------------------------------------------------------------------
(* Characters and strings *)

Digits == {"0", "1", "2", "3", "4", "5", "6", "7", "8", "9"}

LowerSeq == <<"a", "b", "c", "d", "e", "f", "g", "h", "i", "j", "k", "l", "m",
              "n", "o", "p", "q", "r", "s", "t", "u", "v", "w", "x", "y", "z">>

UpperSeq == <<"A", "B", "C", "D", "E", "F", "G", "H", "I", "J", "K", "L", "M",
              "N", "O", "P", "Q", "R", "S", "T", "U", "V", "W", "X", "Y", "Z">>

Range(f) == {f[i] : i \in DOMAIN f}

\* \w of the regular expressions
IsWordChar(c) == c \in Digits \cup Range(LowerSeq) \cup Range(UpperSeq) \cup {"_"}

\* \s of the regular expressions, and what trim() strips
IsSpace(c) == c \in {" ", "\t", "\n", "\r", "\f"}

UpperChar(c) ==
    IF c \in Range(LowerSeq)
    THEN UpperSeq[CHOOSE i \in DOMAIN LowerSeq : LowerSeq[i] = c]
    ELSE c

toUpperCase(s) == [i \in DOMAIN s |-> UpperChar(s[i])]

\* w occurs in s at position i
OccursAt(s, i, w) ==
    /\ i >= 1
    /\ i + Len(w) - 1 <= Len(s)
    /\ SubSeq(s, i, i + Len(w) - 1) = w

includes(s, w) == \E i \in 1..(Len(s) + 1) : OccursAt(s, i, w)

\* \b between positions i-1 and i of s
WordBoundary(s, i) ==
    LET before == i - 1 \in DOMAIN s /\ IsWordChar(s[i - 1])
        at     == i \in DOMAIN s /\ IsWordChar(s[i])
    IN  before # at

Min(S) == CHOOSE x \in S : \A y \in S : x <= y

RECURSIVE TrimStart(_)
TrimStart(s) ==
    IF s # <<>> /\ IsSpace(Head(s)) THEN TrimStart(Tail(s)) ELSE s

RECURSIVE TrimEnd(_)
TrimEnd(s) ==
    IF s # <<>> /\ IsSpace(s[Len(s)])
    THEN TrimEnd(SubSeq(s, 1, Len(s) - 1))
    ELSE s

trim(s) == TrimEnd(TrimStart(s))

\* s.replace(/[...]/g, " ") for a character class given as a set
ReplaceAll(s, class) == [i \in DOMAIN s |-> IF s[i] \in class THEN " " ELSE s[i]]

\* s.replace(/\s+/g, " ")
RECURSIVE CollapseSpaces(_)
CollapseSpaces(s) ==
    IF s = <<>> THEN <<>>
    ELSE IF IsSpace(Head(s))
         THEN <<" ">> \o CollapseSpaces(TrimStart(s))
         ELSE <<Head(s)>> \o CollapseSpaces(Tail(s))

Extensions ==
    << <<"m", "k", "v">>, <<"m", "p", "4">>, <<"m", "o", "v">>,
       <<"a", "v", "i">>, <<"w", "m", "v">>, <<"f", "l", "v">>,
       <<"w", "e", "b", "m">> >>

\* s.replace(/\.(mkv|mp4|mov|avi|wmv|flv|webm)$/i, "")
StripExtension(s) ==
    LET hits == {i \in DOMAIN s :
                    /\ s[i] = "."
                    /\ \E k \in DOMAIN Extensions :
                          toUpperCase(SubSeq(s, i + 1, Len(s)))
                              = toUpperCase(Extensions[k])}
    IN  IF hits = {} THEN s ELSE SubSeq(s, 1, Min(hits) - 1)

\* s.split(/\d{4}/)[0]
BeforeFourDigits(s) ==
    LET hits == {i \in DOMAIN s :
                    /\ i + 3 <= Len(s)
                    /\ \A k \in 0..3 : s[i + k] \in Digits}
    IN  IF hits = {} THEN s ELSE SubSeq(s, 1, Min(hits) - 1)

\* title.match(/\b(20|19)\d{2}\b/): the matched text, "" when there is none
yearMatch(title) ==
    LET hits == {i \in DOMAIN title :
                    /\ \/ OccursAt(title, i, <<"2", "0">>)
                       \/ OccursAt(title, i, <<"1", "9">>)
                    /\ i + 3 <= Len(title)
                    /\ title[i + 2] \in Digits
                    /\ title[i + 3] \in Digits
                    /\ WordBoundary(title, i)
                    /\ WordBoundary(title, i + 4)}
    IN  IF hits = {} THEN <<>> ELSE SubSeq(title, Min(hits), Min(hits) + 3)

Qualities ==
    << <<"1", "0", "8", "0", "p">>, <<"7", "2", "0", "p">>,
       <<"2", "1", "6", "0", "p">> >>

\* title.match(/\b(1080p|720p|2160p)\b/): the matched text, "" when none
qualityMatch(title) ==
    LET At(i) == {k \in DOMAIN Qualities :
                    /\ OccursAt(title, i, Qualities[k])
                    /\ WordBoundary(title, i)
                    /\ WordBoundary(title, i + Len(Qualities[k]))}
        hits == {i \in DOMAIN title : At(i) # {}}
    IN  IF hits = {} THEN <<>> ELSE Qualities[Min(At(Min(hits)))]

possibleKeywords ==
    << <<"R", "E", "M", "U", "X">>,
       <<"B", "l", "u", "R", "a", "y">>,
       <<"U", "N", "T", "O", "U", "C", "H", "E", "D">>,
       <<"H", "D", "R", "1", "0">>,
       <<"I", "M", "A", "X">>,
       <<"H", "a", "l", "l", "o", "w", "e", "d">>,
       <<"R", "E", "M", "A", "S", "T", "E", "R", "E", "D">> >>

\* the filter walking the vocabulary from its last keyword to its first
keywords_reversed(title) ==
    LET n == Len(possibleKeywords)
    IN  SelectSeq([k \in 1..n |-> possibleKeywords[n + 1 - k]],
                  LAMBDA kw : includes(toUpperCase(title), toUpperCase(kw)))

\* possibleKeywords.filter(...): the matching keywords, in declared order
keywords(title) ==
    SelectSeq(possibleKeywords,
              LAMBDA kw : includes(toUpperCase(title), toUpperCase(kw)))

\* a.join(", ")
RECURSIVE join_spaced(_)
join_spaced(a) ==
    IF a = <<>> THEN <<>>
    ELSE IF Len(a) = 1 THEN a[1]
    ELSE a[1] \o <<",", " ">> \o join_spaced(Tail(a))

\* a.join(",")
RECURSIVE join(_)
join(a) ==
    IF a = <<>> THEN <<>>
    ELSE IF Len(a) = 1 THEN a[1]
    ELSE a[1] \o <<",">> \o join(Tail(a))

Punctuation == {"[", "]", "(", ")", "-", "_", "/"}

sanitizedTitle(title) ==
    CollapseSpaces(trim(ReplaceAll(ReplaceAll(StripExtension(title), {"."}),
                                   Punctuation)))

\* JavaScript null
Null == [null |-> TRUE]

sanitizeMovieTitle(title) ==
    IF title = <<>> THEN Null
    ELSE [sanitized |-> trim(BeforeFourDigits(sanitizedTitle(title))),
          year      |-> yearMatch(title),
          quality   |-> qualityMatch(title),
          keywords  |-> join(keywords(title))]

---------------------------------------------------------------------------
(* processMovies *)

\* one movie of movieData is [title, url, size]; its sheet row has 7 cells
Row(movie) ==
    LET sanitized == sanitizeMovieTitle(movie.title)
    IN  <<movie.title, movie.url, movie.size, sanitized.sanitized,
          sanitized.year, sanitized.quality, sanitized.keywords>>

\* reading a property of null raises a TypeError
processMoviesRaises(movies) ==
    \E i \in DOMAIN movies : sanitizeMovieTitle(movies[i].title) = Null

processMovies(movies) == [i \in DOMAIN movies |-> Row(movies[i])]

---------------------------------------------------------------------------
(* The record extractor, lines 197-211 *)

\* A list item of the page has up to three sub-elements; each is <<>> when
\* the element is absent and <<text>> when it is present.
\* div.$eval(selector, fn).catch(() => null): <<>> is null, <<s>> a string
EvalTrimmed(el) == IF el = <<>> THEN <<>> ELSE <<trim(el[1])>>

EvalValue(el) == el

\* a test against null only: "" passes
Truthy_nonNull(v) == v # <<>>

\* a JavaScript value used as a condition: null and "" are falsy
Truthy(v) == v # <<>> /\ v[1] # <<>>

Complete(div) ==
    /\ Truthy(EvalTrimmed(div.countitems))
    /\ Truthy(EvalValue(div.input))
    /\ Truthy(EvalTrimmed(div.badge))

RawRecord(div) ==
    [title |-> EvalTrimmed(div.countitems)[1],
     url   |-> EvalValue(div.input)[1],
     size  |-> EvalTrimmed(div.badge)[1]]

\* the extractor leaving the loop at the first incomplete item
RECURSIVE Extract_break(_)
Extract_break(handles) ==
    IF handles = <<>> THEN <<>>
    ELSE IF Complete(Head(handles))
         THEN <<RawRecord(Head(handles))>> \o Extract_break(Tail(handles))
         ELSE <<>>

RECURSIVE Extract(_)
Extract(handles) ==
    IF handles = <<>> THEN <<>>
    ELSE IF Complete(Head(handles))
         THEN <<RawRecord(Head(handles))>> \o Extract(Tail(handles))
         ELSE Extract(Tail(handles))

---------------------------------------------------------------------------
(* updateSheet *)

admitCap == 10

headers ==
    << <<"o", "r", "i", "g", "i", "n", "a", "l", "-", "t", "i", "t", "l", "e">>,
       <<"u", "r", "l">>,
       <<"s", "i", "z", "e">>,
       <<"s", "a", "n", "i", "t", "i", "z", "e", "d", "-", "t", "i", "t", "l", "e">>,
       <<"y", "e", "a", "r">>,
       <<"q", "u", "a", "l", "i", "t", "y">>,
       <<"k", "e", "y", "w", "o", "r", "d", "s">> >>

\* a.slice(from, to) with 0-based bounds
slice(a, from, to) ==
    SubSeq(a, from + 1, IF to < Len(a) THEN to ELSE Len(a))

\* values.get over range Sheet1!A:C: the first three cells of every row
valuesGet(rows) == [i \in DOMAIN rows |-> SubSeq(rows[i], 1, 3)]

\* values.clear over range Sheet1!A:G: all seven columns of every row
valuesClear(rows) == <<>>

\* values.update taken for values.append: the written rows follow the rows
\* of the sheet
valuesUpdate_append(rows, values) == rows \o values

\* values.update at Sheet1!A1: the written rows replace the rows they cover
valuesUpdate(rows, values) ==
    values \o SubSeq(rows, Len(values) + 1, Len(rows))

\* new Set(current.data.values?.slice(1).map((row) => row[0]) || [])
existingMovies(values) ==
    {values[i][1] : i \in (DOMAIN values) \ {1}}

newMovies(processed, existing) ==
    SelectSeq(processed, LAMBDA m : m[1] \notin existing)

\* oldMovies keeping none of the known movies
oldMovies_dropped(processed, existing) == <<>>

oldMovies(processed, existing) ==
    SelectSeq(processed, LAMBDA m : m[1] \in existing)

\* ordered without the cap on the new movies
ordered_uncapped(processed, values) ==
    newMovies(processed, existingMovies(values))
        \o oldMovies(processed, existingMovies(values))

\* [...newMovies.slice(0, 10), ...oldMovies]
ordered(processed, values) ==
    slice(newMovies(processed, existingMovies(values)), 0, admitCap)
        \o oldMovies(processed, existingMovies(values))

---------------------------------------------------------------------------
(* The scroll loop, lines 155-191 *)

stabilityThreshold == 5

\* lines 167-172 with the increment lost
nextNoChangeCount_stuck(currentContentLength, prev, count) ==
    IF currentContentLength = prev THEN count ELSE 0

\* lines 167-172 with the reset lost
nextNoChangeCount_noReset(currentContentLength, prev, count) ==
    IF currentContentLength = prev THEN count + 1 ELSE count

\* lines 167-172
nextNoChangeCount(currentContentLength, prev, count) ==
    IF currentContentLength = prev THEN count + 1 ELSE 0

\* line 158, the condition of the while loop
loopContinues(count) == count < stabilityThreshold

\* line 187, the condition of the break
loopBreaks(count) == count >= stabilityThreshold

---------------------------------------------------------------------------
(* Bounds and the data the runs are checked on *)

MaxItems == 2      \* longest site of the exhaustive family
MaxExtra == 2      \* how far the long sites exceed admitCap
MaxPrior == 2      \* most records in the sheet before the first run
MaxRuns  == 2      \* runs in a row
PageSize == 5      \* list items the site renders per page of the listing
MaxTags  == 2      \* most tags in a title the sanitizer is checked on

TitleA == <<"U", "p", ".", "2", "0", "0", "9", ".", "m", "k", "v">>
TitleB == <<"I", "t">>
TitleD == <<"P", "i">>
NthTitle(i) == <<"M", LowerSeq[i]>>

Url0 == <<"u", "0">>
Url1 == <<"u", "1">>
Url2 == <<"u", "2">>
Size1 == <<"1", "G">>

Item(title, url, size) ==
    [countitems |-> <<title>>, input |-> <<url>>, badge |-> <<size>>]

\* list items a site may serve: two complete ones, one without a size
\* badge, one without a title element, one whose title text is blank
Handles ==
    { Item(TitleA, Url1, Size1),
      Item(TitleB, Url1, Size1),
      [countitems |-> <<TitleB>>, input |-> <<Url2>>, badge |-> <<>>],
      [countitems |-> <<>>, input |-> <<Url2>>, badge |-> <<Size1>>],
      Item(<<" ">>, Url1, Size1) }

SeqsUpTo(S, n) == UNION {[1..k -> S] : k \in 0..n}

Catalogue(n) == [i \in 1..n |-> Item(NthTitle(i), Url1, Size1)]

Sites ==
    SeqsUpTo(Handles, MaxItems)
        \cup {Catalogue(admitCap + k) : k \in 1..MaxExtra}

\* records an earlier run may have written
PriorMovies ==
    { [title |-> TitleA, url |-> Url0, size |-> Size1],
      [title |-> TitleD, url |-> Url0, size |-> Size1],
      [title |-> NthTitle(3), url |-> Url0, size |-> Size1] }

\* an empty sheet, or the header row over records with distinct titles
PriorSheets ==
    {<<>>} \cup
    { <<headers>> \o processMovies(ms) :
        ms \in {q \in SeqsUpTo(PriorMovies, MaxPrior) :
                  \A i, j \in DOMAIN q : i # j => q[i] # q[j]} }

---------------------------------------------------------------------------
(* crawlAndUpdate *)

Init ==
    /\ pc = "launch"
    /\ run = 1
    /\ site \in Sites
    /\ domCount = 0
    /\ browserOpen = FALSE
    /\ prevContentLength = 0
    /\ noChangeCount = 0
    /\ divs = <<>>
    /\ movieData = <<>>
    /\ processedMovies = <<>>
    /\ current = <<>>
    /\ orderedMovies = <<>>
    /\ sheet \in PriorSheets
    /\ sheetAtStart = sheet
    /\ updates = 0
    /\ raised = "none"
    /\ stableCycles = 0
    /\ exitCode = "none"
    /\ log = <<>>
    /\ goodRuns = 0
    /\ external = FALSE

locals == <<prevContentLength, noChangeCount, divs, movieData,
            processedMovies, current, orderedMovies>>

history == <<sheetAtStart, updates, raised, stableCycles, log, goodRuns,
             external>>

\* line 127
Launch ==
    /\ pc = "launch"
    /\ pc' = "newPage"
    /\ browserOpen' = TRUE
    /\ UNCHANGED <<run, site, domCount, locals, sheet, history, exitCode>>

\* lines 132-133
NewPage ==
    /\ pc = "newPage"
    /\ pc' = "login"
    /\ movieData' = <<>>
    /\ UNCHANGED <<run, site, domCount, browserOpen, prevContentLength,
                   noChangeCount, divs, processedMovies, current,
                   orderedMovies, sheet, history, exitCode>>

\* lines 127 and 132 are outside the try statement: when either raises, the
\* promise of crawlAndUpdate rejects, nothing handles the rejection and no
\* later statement of the function runs.  The outcome the process then
\* reports depends on the runtime's unhandled-rejection mode.
Reject ==
    /\ pc \in {"launch", "newPage"}
    /\ pc' = "rejected"
    /\ raised' = pc
    /\ exitCode' \in {"0", "1"}
    /\ goodRuns' = 0
    /\ UNCHANGED <<run, site, domCount, browserOpen, locals, sheet,
                   sheetAtStart, updates, stableCycles, log, external>>

\* lines 137-144
Login ==
    /\ pc = "login"
    /\ pc' = "openFolder"
    /\ UNCHANGED <<run, site, domCount, browserOpen, locals, sheet, history,
                   exitCode>>

\* the rendered count once the page after the first n items has loaded
Rendered(n) == IF n + PageSize < Len(site) THEN n + PageSize ELSE Len(site)

\* lines 147-156: waitForSelector returns once a list item is visible, that
\* is once the first page of a non-empty listing is rendered
OpenFolder ==
    /\ pc = "openFolder"
    /\ site # <<>>
    /\ domCount' = Rendered(0)
    /\ prevContentLength' = 0
    /\ noChangeCount' = 0
    /\ stableCycles' = 0
    /\ pc' = IF loopContinues(0) THEN "scrollRead" ELSE "query"
    /\ log' = Append(log, "scroll")
    /\ UNCHANGED <<run, site, browserOpen, divs, movieData, processedMovies,
                   current, orderedMovies, sheet, sheetAtStart, updates,
                   raised, exitCode, goodRuns, external>>

\* The page renders the next page of the listing.  The count is observed
\* only by ScrollRead, by the wait and by Query, and each of them follows a
\* wait, so growth at any other moment of the loop is growth during that wait.
Grow ==
    /\ pc = "scrollWait"
    /\ domCount < Len(site)
    /\ domCount' = Rendered(domCount)
    /\ stableCycles' = 0
    /\ UNCHANGED <<pc, run, site, browserOpen, locals, sheet, sheetAtStart,
                   updates, raised, exitCode, log, goodRuns, external>>

\* lines 159-174
ScrollRead ==
    /\ pc = "scrollRead"
    /\ noChangeCount' =
          nextNoChangeCount(domCount, prevContentLength, noChangeCount)
    /\ prevContentLength' = domCount
    /\ stableCycles' = stableCycles + 1
    /\ pc' = "scrollTo"
    /\ UNCHANGED <<run, site, domCount, browserOpen, divs, movieData,
                   processedMovies, current, orderedMovies, sheet,
                   sheetAtStart, updates, raised, exitCode, log, goodRuns,
                   external>>

\* line 175
ScrollTo ==
    /\ pc = "scrollTo"
    /\ pc' = "scrollWait"
    /\ UNCHANGED <<run, site, domCount, browserOpen, locals, sheet, history,
                   exitCode>>

\* lines 187-191 and 158: where the loop goes after the wait
afterWait ==
    IF loopBreaks(noChangeCount) THEN "query"
    ELSE IF loopContinues(noChangeCount) THEN "scrollRead" ELSE "query"

\* lines 177-184: the count has exceeded prevContentLength
WaitReturns ==
    /\ pc = "scrollWait"
    /\ domCount > prevContentLength
    /\ pc' = afterWait
    /\ UNCHANGED <<run, site, domCount, browserOpen, locals, sheet, history,
                   exitCode>>

\* lines 177-185 without the catch: the timeout reaches line 221
WaitTimesOut_raises ==
    /\ pc = "scrollWait"
    /\ domCount <= prevContentLength
    /\ pc' = "catch"
    /\ raised' = "scrollWait"
    /\ UNCHANGED <<run, site, domCount, browserOpen, locals, sheet,
                   sheetAtStart, updates, stableCycles, log, goodRuns,
                   external, exitCode>>

\* lines 177-185: the wait times out after 2000 ms and the error is dropped
WaitTimesOut ==
    /\ pc = "scrollWait"
    /\ domCount <= prevContentLength
    /\ pc' = afterWait
    /\ UNCHANGED <<run, site, domCount, browserOpen, locals, sheet, history,
                   exitCode>>

\* line 194
Query ==
    /\ pc = "query"
    /\ divs' = SubSeq(site, 1, domCount)
    /\ stableCycles' = 0
    /\ pc' = "extract"
    /\ log' = Append(log, "extract")
    /\ UNCHANGED <<run, site, domCount, browserOpen, prevContentLength,
                   noChangeCount, movieData, processedMovies, current,
                   orderedMovies, sheet, sheetAtStart, updates, raised,
                   exitCode, goodRuns, external>>

\* lines 197-211 followed at once by line 217: line 216 is skipped
ExtractAll_unauthorized ==
    /\ pc = "extract"
    /\ movieData' = movieData \o Extract(divs)
    /\ pc' = "process"
    /\ UNCHANGED <<run, site, domCount, browserOpen, prevContentLength,
                   noChangeCount, divs, processedMovies, current,
                   orderedMovies, sheet, history, exitCode>>

\* lines 197-211
ExtractAll ==
    /\ pc = "extract"
    /\ movieData' = movieData \o Extract(divs)
    /\ pc' = "authorize"
    /\ UNCHANGED <<run, site, domCount, browserOpen, prevContentLength,
                   noChangeCount, divs, processedMovies, current,
                   orderedMovies, sheet, history, exitCode>>

\* line 216
Authorize ==
    /\ pc = "authorize"
    /\ pc' = "process"
    /\ log' = Append(log, "authorize")
    /\ UNCHANGED <<run, site, domCount, browserOpen, locals, sheet,
                   sheetAtStart, updates, raised, stableCycles, exitCode,
                   goodRuns, external>>

\* line 217
Process ==
    /\ pc = "process"
    /\ IF processMoviesRaises(movieData)
       THEN /\ pc' = "catch"
            /\ raised' = "process"
            /\ prevContentLength' = 0
            /\ noChangeCount' = 0
            /\ divs' = <<>>
            /\ stableCycles' = 0
            /\ goodRuns' = 0
            /\ UNCHANGED processedMovies
       ELSE /\ pc' = "sheetGet"
            /\ processedMovies' = processMovies(movieData)
            /\ UNCHANGED <<raised, prevContentLength, noChangeCount, divs,
                           stableCycles, goodRuns>>
    /\ log' = Append(log, "sanitize")
    /\ UNCHANGED <<run, site, domCount, browserOpen, movieData, current,
                   orderedMovies, sheet, sheetAtStart, updates, exitCode,
                   external>>

\* lines 78-93
SheetGet ==
    /\ pc = "sheetGet"
    /\ current' = valuesGet(sheet)
    /\ orderedMovies' = ordered(processedMovies, valuesGet(sheet))
    /\ pc' = "sheetClear"
    /\ log' = log \o <<"get", "got", "reconcile">>
    /\ UNCHANGED <<run, site, domCount, browserOpen, prevContentLength,
                   noChangeCount, divs, movieData, processedMovies, sheet,
                   sheetAtStart, updates, raised, stableCycles, exitCode,
                   goodRuns, external>>

\* lines 109-112 without the await: the write is issued while the clear
\* is still in flight
SheetClear_unawaited ==
    /\ pc = "sheetClear"
    /\ pc' = "sheetUpdate"
    /\ log' = Append(log, "clear")
    /\ UNCHANGED <<run, site, domCount, browserOpen, locals, sheet,
                   sheetAtStart, updates, raised, stableCycles, exitCode,
                   goodRuns, external>>

\* lines 109-112
SheetClear ==
    /\ pc = "sheetClear"
    /\ sheet' = valuesClear(sheet)
    /\ pc' = "sheetUpdate"
    /\ log' = log \o <<"clear", "cleared">>
    /\ UNCHANGED <<run, site, domCount, browserOpen, locals, sheetAtStart,
                   updates, raised, stableCycles, exitCode, goodRuns,
                   external>>

\* lines 115-122 and 220
SheetUpdate ==
    /\ pc = "sheetUpdate"
    /\ sheet' = valuesUpdate(sheet, <<headers>> \o orderedMovies)
    /\ updates' = updates + 1
    /\ pc' = "finally"
    /\ log' = log \o <<"update", "updated">>
    /\ goodRuns' = IF divs = site THEN goodRuns + 1 ELSE 0
    /\ UNCHANGED <<run, site, domCount, browserOpen, locals, sheetAtStart,
                   raised, stableCycles, exitCode, external>>

\* the awaited calls inside the try statement, each of which may raise
RaisingSteps ==
    {"login", "openFolder", "scrollRead", "scrollTo", "query", "authorize",
     "sheetGet", "sheetClear", "sheetUpdate"}

\* the stage or storage call that the awaited call of a step starts
StartedBy(step) ==
    IF step = "query" THEN <<"extract">>
    ELSE IF step = "authorize" THEN <<"authorize">>
    ELSE IF step = "sheetGet" THEN <<"get">>
    ELSE IF step = "sheetClear" THEN <<"clear">>
    ELSE IF step = "sheetUpdate" THEN <<"update">>
    ELSE <<>>

\* control passes to the catch clause of line 221; the variables declared
\* inside the try block and inside updateSheet go out of scope
Raise ==
    /\ pc \in RaisingSteps
    /\ raised' = pc
    /\ pc' = "catch"
    /\ prevContentLength' = 0
    /\ noChangeCount' = 0
    /\ divs' = <<>>
    /\ processedMovies' = <<>>
    /\ current' = <<>>
    /\ orderedMovies' = <<>>
    /\ stableCycles' = 0
    /\ log' = log \o StartedBy(pc)
    /\ goodRuns' = 0
    /\ UNCHANGED <<run, site, domCount, browserOpen, movieData, sheet,
                   sheetAtStart, updates, exitCode, external>>

\* lines 221-222: the error is logged and dropped
Catch ==
    /\ pc = "catch"
    /\ pc' = "finally"
    /\ UNCHANGED <<run, site, domCount, browserOpen, locals, sheet, history,
                   exitCode>>

\* lines 223-229: the browser is closed and its page with it, the promise
\* resolves and the process ends normally
Finally ==
    /\ pc = "finally"
    /\ browserOpen' = FALSE
    /\ domCount' = 0
    /\ exitCode' = "0"
    /\ pc' = "done"
    /\ UNCHANGED <<run, site, locals, sheet, history>>

\* the script is started again against the same site and sheet
NextRun ==
    /\ pc = "done"
    /\ run < MaxRuns
    /\ run' = run + 1
    /\ pc' = "launch"
    /\ domCount' = 0
    /\ prevContentLength' = 0
    /\ noChangeCount' = 0
    /\ divs' = <<>>
    /\ movieData' = <<>>
    /\ processedMovies' = <<>>
    /\ current' = <<>>
    /\ orderedMovies' = <<>>
    /\ sheetAtStart' = sheet
    /\ updates' = 0
    /\ raised' = "none"
    /\ stableCycles' = 0
    /\ exitCode' = "none"
    /\ log' = <<>>
    /\ external' = FALSE
    /\ UNCHANGED <<site, browserOpen, sheet, goodRuns>>

Next ==
    \/ Launch \/ NewPage \/ Reject \/ Login \/ OpenFolder \/ Grow
    \/ ScrollRead \/ ScrollTo \/ WaitReturns \/ WaitTimesOut \/ Query
    \/ ExtractAll \/ Authorize \/ Process \/ SheetGet \/ SheetClear
    \/ SheetUpdate \/ Raise \/ Catch \/ Finally \/ NextRun

Spec == Init /\ [][Next]_vars

---------------------------------------------------------------------------
(* updateSheet beside another writer of the same spreadsheet *)

TitleE == <<"E", "x">>

\* the row the other writer adds
ExternalRow ==
    processMovies(<<[title |-> TitleE, url |-> Url0, size |-> Size1]>>)[1]

\* lines 78-120: nothing locks the sheet between values.get and
\* values.update, so another writer may append a row below its last row
\* while the clear or the update is pending
ExternalWrite ==
    /\ pc \in {"sheetClear", "sheetUpdate"}
    /\ ~external
    /\ sheet' = Append(sheet, ExternalRow)
    /\ external' = TRUE
    /\ UNCHANGED <<pc, run, site, domCount, browserOpen, locals,
                   sheetAtStart, updates, raised, stableCycles, exitCode,
                   log, goodRuns>>

NextConcurrent == Next \/ ExternalWrite

SpecConcurrent == Init /\ [][NextConcurrent]_vars

---------------------------------------------------------------------------
(* The sanitizer on a family of titles: a run that has extracted one list  *)
(* item and is about to call processMovies                                 *)

\* the part x of a title, after a dot; nothing when the part is absent
Dotted(x) == IF x = <<>> THEN <<>> ELSE <<".">> \o x

RECURSIVE DottedAll(_)
DottedAll(parts) ==
    IF parts = <<>> THEN <<>>
    ELSE Dotted(Head(parts)) \o DottedAll(Tail(parts))

SampleNames ==
    { <<"T", "h", "e", ".", "T", "h", "i", "n", "g">>, <<"U", "p">> }

SampleYears == { <<>>, <<"2", "0", "1", "1">>, <<"1", "9", "9", "9">> }

SampleQualities ==
    { <<>>, <<"1", "0", "8", "0", "p">>, <<"7", "2", "0", "p">> }

\* tags as titles spell them, one of them in lower case
SampleTags ==
    { <<"B", "l", "u", "R", "a", "y">>, <<"R", "E", "M", "U", "X">>,
      <<"i", "m", "a", "x">>, <<"H", "D", "R", "1", "0">> }

SampleExtensions == { <<>>, <<"m", "k", "v">> }

SampleTitles ==
    { name \o Dotted(year) \o Dotted(quality) \o DottedAll(tags) \o Dotted(ext) :
        name \in SampleNames, year \in SampleYears,
        quality \in SampleQualities, tags \in SeqsUpTo(SampleTags, MaxTags),
        ext \in SampleExtensions }

InitSanitize ==
    /\ pc = "process"
    /\ run = 1
    /\ site \in {<<Item(t, Url1, Size1)>> : t \in SampleTitles}
    /\ domCount = 1
    /\ browserOpen = TRUE
    /\ prevContentLength = 1
    /\ noChangeCount = stabilityThreshold
    /\ divs = site
    /\ movieData = Extract(divs)
    /\ processedMovies = <<>>
    /\ current = <<>>
    /\ orderedMovies = <<>>
    /\ sheet = <<>>
    /\ sheetAtStart = sheet
    /\ updates = 0
    /\ raised = "none"
    /\ stableCycles = 0
    /\ exitCode = "none"
    /\ log = <<"scroll", "extract", "authorize">>
    /\ goodRuns = 0
    /\ external = FALSE

SpecSanitize == InitSanitize /\ [][Process]_vars

---------------------------------------------------------------------------
(* Vocabulary of the properties *)

\* the records of a sheet: its rows below the header row
Records(rows) == IF rows = <<>> THEN <<>> ELSE Tail(rows)

Keys(records) == {records[i][1] : i \in DOMAIN records}

Take(s, n) == SubSeq(s, 1, IF n < Len(s) THEN n ELSE Len(s))

priorRecords == Records(sheetAtStart)

\* the run has completed its storage write
Written == updates = 1 /\ pc \in {"finally", "done"}

\* the run has ended
Ended == pc \in {"done", "rejected"}

\* the fresh records, in extractor order, whose title is not a prior key
newOnes == SelectSeq(processedMovies, LAMBDA m : m[1] \notin Keys(priorRecords))

---------------------------------------------------------------------------
(* C1: a run that completes its storage write keeps every originalTitle   *)
(* that was in the sheet before the run.                                   *)
C1_NoEntryLost ==
    Written => Keys(priorRecords) \subseteq Keys(Records(sheet))

(* C2: the records written by a sync are the first admitCap of newOnes     *)
(* followed by all of priorRecords in their prior order.                   *)
C2_WrittenSequence ==
    Written => Records(sheet) = Take(newOnes, admitCap) \o priorRecords

(* C3: in every written table the originalTitle values are pairwise        *)
(* distinct.                                                               *)
C3_DistinctTitles ==
    Written =>
        \A i, j \in DOMAIN Records(sheet) :
            i # j => Records(sheet)[i][1] # Records(sheet)[j][1]

(* C4: when a fresh record has the originalTitle of a prior record, every  *)
(* row written for that title is the prior record, unchanged.              *)
C4_PriorWins ==
    Written =>
        \A p \in DOMAIN priorRecords :
            priorRecords[p][1] \in Keys(processedMovies) =>
                /\ priorRecords[p][1] \in Keys(Records(sheet))
                /\ \A r \in DOMAIN Records(sheet) :
                      Records(sheet)[r][1] = priorRecords[p][1]
                          => Records(sheet)[r] = priorRecords[p]

\* the raw records, in extractor order, whose title is not a prior key
freshNew == SelectSeq(movieData, LAMBDA m : m.title \notin Keys(priorRecords))

\* the written records whose title is not a prior key
admitted == SelectSeq(Records(sheet), LAMBDA r : r[1] \notin Keys(priorRecords))

(* C5: at most admitCap rows whose originalTitle was not in the prior      *)
(* table are written; they are the first admitCap such fresh records in    *)
(* extractor order, and they precede every other row.                      *)
C5_CapAndOrder ==
    Written =>
        /\ Len(admitted) <= admitCap
        /\ Len(admitted) = Len(Take(freshNew, admitCap))
        /\ \A i \in DOMAIN admitted :
              SubSeq(admitted[i], 1, 3)
                  = <<freshNew[i].title, freshNew[i].url, freshNew[i].size>>
        /\ Take(Records(sheet), Len(admitted)) = admitted

\* the cap drops a fresh record and known records follow the admitted ones
C5_Witness ==
    /\ Written
    /\ Len(freshNew) > admitCap
    /\ Len(Records(sheet)) > admitCap

(* C6: every run in which the browser was launched ends with the browser   *)
(* closed, whichever step raised.                                          *)
C6_BrowserReleased ==
    (Ended /\ raised # "launch") => ~browserOpen

(* C7: a run either completes with exactly one storage write of the merged *)
(* table, or writes nothing and leaves the sheet as it was before the run. *)
C7_NoPartialOutput ==
    Ended =>
        \/ /\ raised = "none"
           /\ updates = 1
           /\ sheet = <<headers>> \o orderedMovies
        \/ /\ updates = 0
           /\ sheet = sheetAtStart

\* the steps that navigate, authorize or call the storage backend
SurfacedSteps ==
    {"login", "openFolder", "authorize", "sheetGet", "sheetClear",
     "sheetUpdate"}

\* nothing of the stages after the failed step has happened
NoLaterStage ==
    /\ updates = 0
    /\ raised \in {"login", "openFolder"} => movieData = <<>>
    /\ raised \in {"login", "openFolder", "authorize", "sheetGet",
                   "sheetClear"} => sheet = sheetAtStart

(* C8: a navigation, credential or storage-call failure ends the run with  *)
(* a non-zero outcome, the browser closed and no later stage executed.     *)
C8_FailureSurfaced ==
    (Ended /\ raised \in SurfacedSteps) =>
        /\ ~browserOpen
        /\ NoLaterStage
        /\ exitCode # "0"

(* C9: once the rendered count has stopped changing, at most               *)
(* stabilityThreshold + 1 further cycles of the scroll loop begin.         *)
C9_ScrollTerminates == stableCycles <= stabilityThreshold + 1

\* the loop has exited after exactly stabilityThreshold + 1 stable cycles
C9_Witness ==
    /\ pc = "query"
    /\ stableCycles = stabilityThreshold + 1
    /\ noChangeCount = stabilityThreshold

\* the extractor has run and its input and output are still in scope
Extracted ==
    /\ raised = "none"
    /\ pc \in {"authorize", "process", "sheetGet", "sheetClear",
               "sheetUpdate", "finally", "done"}

AllRead(div) ==
    div.countitems # <<>> /\ div.input # <<>> /\ div.badge # <<>>

AllReadNonEmpty(div) ==
    /\ AllRead(div)
    /\ trim(div.countitems[1]) # <<>>
    /\ div.input[1] # <<>>
    /\ trim(div.badge[1]) # <<>>

RecordsOf(handles) ==
    [i \in DOMAIN handles |->
        [title |-> trim(handles[i].countitems[1]),
         url   |-> handles[i].input[1],
         size  |-> trim(handles[i].badge[1])]]

(* C10 as stated: the extractor's output is, in input order, the records   *)
(* of exactly the item handles whose three sub-fields were all read.       *)
C10_AllReadEmitted ==
    Extracted => movieData = RecordsOf(SelectSeq(divs, AllRead))

(* C10 amended: the extractor's output is, in input order and without      *)
(* deduplication, the records of exactly the item handles whose three      *)
(* sub-fields were all read and are non-empty.                             *)
C10_CompleteEmitted ==
    Extracted => movieData = RecordsOf(SelectSeq(divs, AllReadNonEmpty))

\* an incomplete item was skipped and a later item was still emitted
C10_Witness ==
    /\ Extracted
    /\ Len(divs) > 1
    /\ ~AllReadNonEmpty(divs[1])
    /\ movieData # <<>>

---------------------------------------------------------------------------
(* Properties of the sanitizer, under SpecSanitize *)

TheThing ==
    <<"T", "h", "e", ".", "T", "h", "i", "n", "g", ".", "2", "0", "1", "1",
      ".", "1", "0", "8", "0", "p", ".", "B", "l", "u", "R", "a", "y", ".",
      "R", "E", "M", "U", "X", ".", "m", "k", "v">>

\* processMovies has returned the row of the one title it was given
Sanitized == pc = "sheetGet" /\ Len(processedMovies) = 1

\* the sanitized-title, year, quality and keywords cells of that row
SanitizedCells == SubSeq(processedMovies[1], 4, 7)

(* C11 as stated: "The.Thing.2011.1080p.BluRay.REMUX.mkv" is sanitized to  *)
(* "The Thing", "2011", "1080p" and keywords "BluRay,REMUX".               *)
C11_ExampleTitleOrder ==
    (Sanitized /\ processedMovies[1][1] = TheThing) =>
        SanitizedCells =
            << <<"T", "h", "e", " ", "T", "h", "i", "n", "g">>,
               <<"2", "0", "1", "1">>,
               <<"1", "0", "8", "0", "p">>,
               <<"B", "l", "u", "R", "a", "y", ",", "R", "E", "M", "U", "X">> >>

(* C11 amended: "The.Thing.2011.1080p.BluRay.REMUX.mkv" is sanitized to    *)
(* "The Thing", "2011", "1080p" and keywords "REMUX,BluRay".               *)
C11_ExampleVocabularyOrder ==
    (Sanitized /\ processedMovies[1][1] = TheThing) =>
        SanitizedCells =
            << <<"T", "h", "e", " ", "T", "h", "i", "n", "g">>,
               <<"2", "0", "1", "1">>,
               <<"1", "0", "8", "0", "p">>,
               <<"R", "E", "M", "U", "X", ",", "B", "l", "u", "R", "a", "y">> >>

\* the example title has been sanitized
C11_Witness == Sanitized /\ processedMovies[1][1] = TheThing

\* the comma-separated items of a keywords cell; none for the empty cell
RECURSIVE SplitCommas(_, _)
SplitCommas(s, item) ==
    IF s = <<>> THEN (IF item = <<>> THEN <<>> ELSE <<item>>)
    ELSE IF Head(s) = ","
         THEN <<item>> \o SplitCommas(Tail(s), <<>>)
         ELSE SplitCommas(Tail(s), item \o <<Head(s)>>)

\* the tags listed in the keywords cell of the sanitized row
listedTags == SplitCommas(processedMovies[1][7], <<>>)

\* the positions in the vocabulary of the tags the title contains
matchedPositions ==
    {k \in DOMAIN possibleKeywords :
        includes(toUpperCase(processedMovies[1][1]),
                 toUpperCase(possibleKeywords[k]))}

(* C12: the keywords field lists every matched tag once, in the            *)
(* vocabulary's declared order, whatever their order in the title.         *)
C12_KeywordsInVocabularyOrder ==
    Sanitized =>
        /\ Len(listedTags) = Cardinality(matchedPositions)
        /\ \A i \in DOMAIN listedTags :
              \E k \in matchedPositions : listedTags[i] = possibleKeywords[k]
        /\ \A i, j \in DOMAIN listedTags :
              i < j =>
                  \E k, l \in matchedPositions :
                      /\ k < l
                      /\ listedTags[i] = possibleKeywords[k]
                      /\ listedTags[j] = possibleKeywords[l]

\* two tags matched and the title has them in the opposite order
C12_Witness ==
    /\ Sanitized
    /\ Len(listedTags) = 2
    /\ includes(processedMovies[1][1],
                <<".">> \o listedTags[2] \o <<".">> \o listedTags[1])


---------------------------------------------------------------------------
\* the originalTitles of the records the extractor emits from the listing
listedTitles == {Extract(site)[i].title : i \in DOMAIN Extract(site)}

(* C13: the listing is the same in every run; once as many runs in a row   *)
(* have written the sheet from the whole listing as the cap needs to admit *)
(* every listed record, every listed originalTitle is in the sheet, so a   *)
(* record the cap dropped in one run is admitted in a later one.           *)
C13_DroppedRediscovered ==
    (pc = "done" /\ goodRuns * admitCap >= Len(Extract(site)))
        => listedTitles \subseteq Keys(Records(sheet))

\* the first run admitted admitCap records of a longer listing and the
\* second run has admitted the rest
C13_Witness ==
    /\ pc = "done"
    /\ goodRuns = 2
    /\ Len(Extract(site)) > admitCap
    /\ Len(Records(sheetAtStart)) = admitCap
    /\ ~(listedTitles \subseteq Keys(Records(sheetAtStart)))
    /\ listedTitles \subseteq Keys(Records(sheet))

---------------------------------------------------------------------------
(* C14: the rendered count changes only by growing, so the reads since it  *)
(* last changed (stableCycles of them) all returned the same count and the *)
(* first of them differed from the read before it.  Right after a read the *)
(* streak is the number of those reads that equalled their predecessor: a  *)
(* differing read leaves it at 0.  The loop is left, and extraction        *)
(* starts, only with the streak at stabilityThreshold.                     *)
C14_ExitOnlyAfterStableReads ==
    /\ pc = "scrollTo" => noChangeCount = stableCycles - 1
    /\ pc \in {"scrollWait", "scrollRead"}
          => noChangeCount <= stabilityThreshold
    /\ pc \in {"query", "extract"} => noChangeCount = stabilityThreshold

\* extraction has started on a listing that grew while the loop ran, so a
\* read differed from the one before it and the streak went on to reach
\* the threshold
C14_Witness ==
    /\ pc = "extract"
    /\ noChangeCount = stabilityThreshold
    /\ Len(divs) > PageSize

---------------------------------------------------------------------------
\* the wait of this cycle ends without the count having exceeded the
\* previous count: it has timed out
timedOut == pc = "scrollWait" /\ domCount <= prevContentLength /\ pc' # pc

(* C15: a growth wait that times out raises nothing and changes nothing:   *)
(* the loop goes on to its next read, or leaves by the streak condition to *)
(* the query of the list items, exactly where a wait that returned goes.   *)
C15_TimeoutNotAnError ==
    [][timedOut =>
          /\ pc' = IF noChangeCount >= stabilityThreshold
                      THEN "query" ELSE "scrollRead"
          /\ raised' = "none"
          /\ UNCHANGED <<locals, domCount, browserOpen, sheet, log, updates,
                         exitCode>>]_vars

\* a wait has timed out with the streak short of the threshold and the loop
\* is at its next read
C15_Witness ==
    /\ pc = "scrollRead"
    /\ domCount = prevContentLength
    /\ noChangeCount \in 1..(stabilityThreshold - 1)
    /\ raised = "none"

---------------------------------------------------------------------------
\* the storage calls of the run so far: each call as issued ("get", "clear",
\* "update") and, once it has returned, its return
storageCalls ==
    SelectSeq(log, LAMBDA e : e \in {"get", "got", "clear", "cleared",
                                      "update", "updated"})

storageOrder == <<"get", "got", "clear", "cleared", "update", "updated">>

\* position of the first occurrence of e in the log, 0 when it has none
RECURSIVE IndexIn(_, _)
IndexIn(e, s) ==
    IF s = <<>> THEN 0
    ELSE IF s[Len(s)] = e /\ IndexIn(e, SubSeq(s, 1, Len(s) - 1)) = 0
         THEN Len(s)
         ELSE IndexIn(e, SubSeq(s, 1, Len(s) - 1))

(* C16: the storage calls of a run are read, clear, write in that order,   *)
(* each issued at most once and each issued only after the call before it  *)
(* has returned; while any of them is issued the scroll loop has left by   *)
(* its streak condition and the extractor has emitted its records.         *)
C16_StorageCallsSequential ==
    /\ storageCalls = SubSeq(storageOrder, 1, Len(storageCalls))
    /\ storageCalls # <<>> =>
          /\ 0 < IndexIn("scroll", log)
          /\ IndexIn("scroll", log) < IndexIn("extract", log)
          /\ IndexIn("extract", log) < IndexIn("get", log)
    /\ pc \in {"sheetGet", "sheetClear", "sheetUpdate"} =>
          /\ noChangeCount = stabilityThreshold
          /\ movieData = Extract(divs)

\* all three storage calls have been issued and have returned
C16_Witness == pc = "done" /\ storageCalls = storageOrder

---------------------------------------------------------------------------
\* the stages the run has started so far, in the order it started them
stages ==
    SelectSeq(log, LAMBDA e : e \in {"authorize", "scroll", "extract",
                                      "sanitize", "reconcile", "update"})

IsPrefix(s, t) == Len(s) <= Len(t) /\ s = SubSeq(t, 1, Len(s))

\* a stage is about to start with the results of the stages before it
stageInputsReady ==
    /\ pc \in {"query", "extract"} => noChangeCount = stabilityThreshold
    /\ pc \in {"authorize", "process"} => movieData = Extract(divs)
    /\ pc = "sheetGet" => processedMovies = processMovies(movieData)
    /\ pc \in {"sheetClear", "sheetUpdate"}
          => orderedMovies = ordered(processedMovies, current)

(* C17 as claimed: the stages of a run start in the order credentials,     *)
(* scroll controller, extractor, sanitizer, reconciliation, storage write, *)
(* each after the one before it has finished: the credentials are acquired *)
(* before any scrolling.                                                   *)
C17_CredentialsFirst ==
    /\ IsPrefix(stages, <<"authorize", "scroll", "extract", "sanitize",
                          "reconcile", "update">>)
    /\ stageInputsReady

(* C17 as amended: the stages of a run start in the order scroll           *)
(* controller, extractor, credentials, sanitizer, reconciliation, storage  *)
(* write, each after the one before it has finished: the credentials are   *)
(* acquired after the extraction and before any storage call.              *)
C17_CredentialsBeforeStorage ==
    /\ IsPrefix(stages, <<"scroll", "extract", "authorize", "sanitize",
                          "reconcile", "update">>)
    /\ stageInputsReady

\* a run has gone through all six stages
C17_Witness == pc = "done" /\ Len(stages) = 6 /\ raised = "none"

---------------------------------------------------------------------------
\* the external writer's row is in the sheet
externalRowKept == \E i \in DOMAIN sheet : sheet[i] = ExternalRow

(* C18: a row that another writer appends after the run has read the sheet *)
(* and before its write has landed is gone once the write has landed, and  *)
(* the run has raised nothing on its account: the row is overwritten       *)
(* silently.                                                               *)
C18_ExternalRowOverwritten ==
    (external /\ Written) => (~externalRowKept /\ raised = "none")

\* the interleaving of the claim: the row was added inside the window, the
\* run has ended without an error and the row is not in the sheet
C18_Witness ==
    /\ external
    /\ pc = "done"
    /\ updates = 1
    /\ raised = "none"
    /\ exitCode = "0"
    /\ ~externalRowKept

---------------------------------------------------------------------------
(* C19: every record the extractor has emitted has a non-empty title, so   *)
(* at the sanitizing step sanitizeMovieTitle returns no null for any of    *)
(* them and processMovies does not raise; every row it has produced has 7  *)
(* columns.                                                                *)
C19_SanitizerNeverFails ==
    /\ \A i \in DOMAIN movieData : movieData[i].title # <<>>
    /\ pc = "process" =>
          /\ \A i \in DOMAIN movieData :
                sanitizeMovieTitle(movieData[i].title) # Null
          /\ ~processMoviesRaises(movieData)
    /\ raised # "process"
    /\ \A i \in DOMAIN processedMovies : Len(processedMovies[i]) = 7

\* the listing held an item whose title text is blank; the extractor has
\* skipped it and the sanitizer has produced rows from the others
C19_Witness ==
    /\ pc = "sheetGet"
    /\ processedMovies # <<>>
    /\ \E i \in DOMAIN divs :
          divs[i].countitems # <<>> /\ trim(divs[i].countitems[1]) = <<>>

====
